---- MODULE Spec2Model ----
(***************************************************************************)
(* Bos-Coster multi-scalar multiplication of src/ecmult_multi_impl.h:      *)
(* the index max-heap keyed by scalar value (sift_down, sift_up,           *)
(* sift_floyd, heapify, heap_initialize, replace, heap_remove) and the     *)
(* driver secp256k1_ecmult_multi (reduction loop and finishing ladder).    *)
(*                                                                         *)
(* Scalars are naturals 0..MaxScalar held in fixed-width storage; the      *)
(* curve group is the cyclic group Z_Order written additively, whose       *)
(* identity (the point at infinity) is 0.  Arrays are functions on 0..k-1  *)
(* so that the index arithmetic of the source is kept as written.          *)
(***************************************************************************)
EXTENDS Integers, FiniteSets, Sequences, TLC

\* ------------------------------------------------------------------ bounds
\* SECP256K1_ECMULT_MULTI_MAX_N scaled down: capacity of heap.tree and the
\* largest n the precondition allows.
MaxN == 4
\* Largest n among the inputs of the driver that are explored (<= MaxN).
MaxTerms == 3
\* Largest scalar value an input may hold; scalar storage wraps above it.
MaxScalar == 5
\* Largest scalar among the inputs of the heap harness.
HeapMaxScalar == 3

\* ----------------------------------------------------- program constants
\* Order of the point group.  The curve group has prime order; Z_3 is the
\* smallest group of prime order in which a point, its double and the
\* identity are three different elements.
Order == 3
\* unsigned char tree[...]: an index is stored modulo 2^8
UCharMod == 256
\* value of a cell or local the code has not written yet
Uninit == 0 - 1

Scalars == 0..MaxScalar
Points == 0..(Order - 1)
Identity == 0

VARIABLES
    n,          \* argument n
    sc,         \* argument sc[0..n), mutated in place
    pt,         \* argument pt[0..n), mutated in place
    r,          \* output accumulator *r
    tree,       \* heap.tree[0..MaxN)
    size,       \* heap.size
    first,      \* local first
    second,     \* local second
    pc,         \* position of the driver (or of the heap harness)
    sc0,        \* sc as it was on entry
    pt0,        \* pt as it was on entry
    last,       \* the heap operation performed by the latest step
    ret,        \* what that heap operation returned
    discarded,  \* <<index, scalar at that moment>> of every index dropped
    via,        \* the heap operation that handed out the current first
    lad         \* the ladder's start values and its counts of doublings and additions

vars == <<n, sc, pt, r, tree, size, first, second, pc, sc0, pt0, last, ret, discarded, via, lad>>

\* ------------------------------------------------ scalar / group primitives
secp256k1_scalar_cmp_var(a, b) == IF a > b THEN 1 ELSE IF a < b THEN 0 - 1 ELSE 0

secp256k1_scalar_is_zero(a) == a = 0

\* non-modular subtraction in fixed-width storage: a borrow wraps
secp256k1_scalar_numsub(a, b) == (a - b) % (MaxScalar + 1)

\* shift right by one bit, returning the bit shifted out
secp256k1_scalar_shr_int(a) == [val |-> a \div 2, bit |-> a % 2]

secp256k1_gej_add_var(a, b) == (a + b) % Order

secp256k1_gej_double_var(a) == (a + a) % Order

secp256k1_gej_is_infinity(a) == a = Identity

\* ------------------------------------------------------------------- heap
\* Faulty variant: the right child is never looked at
LargerChild_LeftOnly(t, sz, s, node) == (node * 2) + 1

\* The larger child of node (the right one only when strictly larger).
LargerChild(t, sz, s, node) ==
    LET child == (node * 2) + 1
        other == child + 1
    IN  IF other < sz /\ secp256k1_scalar_cmp_var(s[t[other]], s[t[child]]) > 0
        THEN other
        ELSE child

\* Faulty variant: the descent also stops at a larger child of equal scalar
RECURSIVE secp256k1_sift_down_StopOnEqual(_, _, _, _, _)
secp256k1_sift_down_StopOnEqual(t, sz, s, node, index) ==
    IF node < sz \div 2
    THEN LET child == LargerChild(t, sz, s, node)
         IN  IF secp256k1_scalar_cmp_var(s[index], s[t[child]]) >= 0
             THEN [t EXCEPT ![node] = index]
             ELSE secp256k1_sift_down_StopOnEqual([t EXCEPT ![node] = t[child]], sz, s, child, index)
    ELSE [t EXCEPT ![node] = index]

RECURSIVE secp256k1_sift_down(_, _, _, _, _)
secp256k1_sift_down(t, sz, s, node, index) ==
    IF node < sz \div 2
    THEN LET child == LargerChild(t, sz, s, node)
         IN  IF secp256k1_scalar_cmp_var(s[index], s[t[child]]) > 0
             THEN [t EXCEPT ![node] = index]
             ELSE secp256k1_sift_down([t EXCEPT ![node] = t[child]], sz, s, child, index)
    ELSE [t EXCEPT ![node] = index]

\* Faulty variant: the candidate also climbs over a parent of equal scalar
RECURSIVE secp256k1_sift_up_OverEqual(_, _, _, _)
secp256k1_sift_up_OverEqual(t, s, node, index) ==
    IF node > 0
    THEN LET parent == (node - 1) \div 2
         IN  IF secp256k1_scalar_cmp_var(s[index], s[t[parent]]) < 0
             THEN [t EXCEPT ![node] = index]
             ELSE secp256k1_sift_up_OverEqual([t EXCEPT ![node] = t[parent]], s, parent, index)
    ELSE [t EXCEPT ![node] = index]

RECURSIVE secp256k1_sift_up(_, _, _, _)
secp256k1_sift_up(t, s, node, index) ==
    IF node > 0
    THEN LET parent == (node - 1) \div 2
         IN  IF secp256k1_scalar_cmp_var(s[index], s[t[parent]]) <= 0
             THEN [t EXCEPT ![node] = index]
             ELSE secp256k1_sift_up([t EXCEPT ![node] = t[parent]], s, parent, index)
    ELSE [t EXCEPT ![node] = index]

\* Faulty variant: the candidate is left at the leaf the descent ends on
RECURSIVE secp256k1_sift_floyd_NoSiftUp(_, _, _, _, _)
secp256k1_sift_floyd_NoSiftUp(t, sz, s, node, index) ==
    IF node < sz \div 2
    THEN LET child == LargerChild(t, sz, s, node)
         IN  secp256k1_sift_floyd_NoSiftUp([t EXCEPT ![node] = t[child]], sz, s, child, index)
    ELSE [t EXCEPT ![node] = index]

RECURSIVE secp256k1_sift_floyd(_, _, _, _, _)
secp256k1_sift_floyd(t, sz, s, node, index) ==
    IF node < sz \div 2
    THEN LET child == LargerChild(t, sz, s, node)
         IN  secp256k1_sift_floyd([t EXCEPT ![node] = t[child]], sz, s, child, index)
    ELSE secp256k1_sift_up(t, s, node, index)

\* while (root-- > 0) sift_down(heap, root, heap->tree[root])
RECURSIVE HeapifyFrom(_, _, _, _)
HeapifyFrom(t, sz, s, root) ==
    IF root > 0
    THEN HeapifyFrom(secp256k1_sift_down(t, sz, s, root - 1, t[root - 1]), sz, s, root - 1)
    ELSE t

secp256k1_heapify(t, sz, s) == HeapifyFrom(t, sz, s, sz \div 2)

\* Faulty variant: the scan forgets the test of the point
IsActive_ScalarOnly(s, p, i) == ~secp256k1_scalar_is_zero(s[i])

\* Faulty variant: the scan forgets the test of the scalar
IsActive_PointOnly(s, p, i) == ~secp256k1_gej_is_infinity(p[i])

\* the test of the filtering scan
IsActive(s, p, i) == ~secp256k1_scalar_is_zero(s[i]) /\ ~secp256k1_gej_is_infinity(p[i])

\* Faulty variant: the cell of tree is too narrow for the largest index
RECURSIVE FilterFrom_Truncates(_, _, _, _, _, _)
FilterFrom_Truncates(t, sz, s, p, cnt, i) ==
    IF i < cnt
    THEN IF IsActive(s, p, i)
         THEN FilterFrom_Truncates([t EXCEPT ![sz] = i % (MaxN - 1)], sz + 1, s, p, cnt, i + 1)
         ELSE FilterFrom_Truncates(t, sz, s, p, cnt, i + 1)
    ELSE [tree |-> t, size |-> sz]

\* for (i = 0; i < n; ++i) if (active) heap->tree[size++] = i;
RECURSIVE FilterFrom(_, _, _, _, _, _)
FilterFrom(t, sz, s, p, cnt, i) ==
    IF i < cnt
    THEN IF IsActive(s, p, i)
         THEN FilterFrom([t EXCEPT ![sz] = i % UCharMod], sz + 1, s, p, cnt, i + 1)
         ELSE FilterFrom(t, sz, s, p, cnt, i + 1)
    ELSE [tree |-> t, size |-> sz]

secp256k1_heap_initialize(t, s, p, cnt) ==
    LET f == FilterFrom(t, 0, s, p, cnt, 0)
    IN  [tree |-> secp256k1_heapify(f.tree, f.size, s), size |-> f.size]

\* Faulty variant: the result is read after the root has been overwritten
secp256k1_replace_LateRead(t, sz, s, index) ==
    LET t2 == secp256k1_sift_floyd(t, sz, s, 0, index)
    IN  [tree |-> t2, size |-> sz, result |-> t2[0]]

secp256k1_replace(t, sz, s, index) ==
    [tree |-> secp256k1_sift_floyd(t, sz, s, 0, index), size |-> sz, result |-> t[0]]

\* Faulty variant: the result is read after the root has been overwritten
secp256k1_heap_remove_LateRead(t, sz, s) ==
    LET t2 == IF sz - 1 > 0 THEN secp256k1_sift_down(t, sz - 1, s, 0, t[sz - 1]) ELSE t
    IN  [tree |-> t2, size |-> sz - 1, result |-> t2[0]]

\* Faulty variant: the old root, not the last element, is sifted down
secp256k1_heap_remove_SiftsRoot(t, sz, s) ==
    [tree |-> IF sz - 1 > 0 THEN secp256k1_sift_down(t, sz - 1, s, 0, t[0]) ELSE t,
     size |-> sz - 1,
     result |-> t[0]]

secp256k1_heap_remove(t, sz, s) ==
    [tree |-> IF sz - 1 > 0 THEN secp256k1_sift_down(t, sz - 1, s, 0, t[sz - 1]) ELSE t,
     size |-> sz - 1,
     result |-> t[0]]

\* ---------------------------------------------------------------- driver
\* lad before the ladder has started
NoLadder == [s0 |-> Uninit, p0 |-> Uninit, r0 |-> Uninit, doublings |-> 0, additions |-> 0]

\* State on entry to secp256k1_ecmult_multi: any n <= MaxTerms, any arrays.
Init ==
    /\ n \in 0..MaxTerms
    /\ sc \in [0..(n - 1) -> Scalars]
    /\ pt \in [0..(n - 1) -> Points]
    /\ r = Uninit
    /\ tree = [k \in 0..(MaxN - 1) |-> Uninit]
    /\ size = Uninit
    /\ first = Uninit
    /\ second = Uninit
    /\ pc = "start"
    /\ sc0 = sc
    /\ pt0 = pt
    /\ last = "none"
    /\ ret = Uninit
    /\ discarded = {}
    /\ via = "none"
    /\ lad = NoLadder

\* Faulty variant: the return of lines 146-148 is missing
Start_NoEarlyReturn ==
    /\ pc = "start"
    /\ \E h \in {secp256k1_heap_initialize(tree, sc, pt, n)} :
          /\ tree' = h.tree
          /\ size' = h.size
          /\ pc' = "first_pop"
    /\ r' = Identity
    /\ last' = "build"
    /\ UNCHANGED <<n, sc, pt, first, second, sc0, pt0, ret, discarded, via, lad>>

\* lines 143-148: clear r, build the heap, return when nothing is active
Start ==
    /\ pc = "start"
    /\ \E h \in {secp256k1_heap_initialize(tree, sc, pt, n)} :
          /\ tree' = h.tree
          /\ size' = h.size
          /\ pc' = IF h.size = 0 THEN "done" ELSE "first_pop"
    /\ r' = Identity
    /\ last' = "build"
    /\ UNCHANGED <<n, sc, pt, first, second, sc0, pt0, ret, discarded, via, lad>>

\* line 150: first = secp256k1_heap_remove(&heap)
FirstPop ==
    /\ pc = "first_pop"
    /\ LET h == secp256k1_heap_remove(tree, size, sc)
       IN  /\ tree' = h.tree
           /\ size' = h.size
           /\ first' = h.result
           /\ ret' = h.result
    /\ last' = "remove"
    /\ via' = "remove"
    /\ pc' = "loop"
    /\ UNCHANGED <<n, sc, pt, r, second, sc0, pt0, discarded, lad>>

\* Faulty variant: the outer loop stops while one index is still in the heap
LoopHead_ExitEarly ==
    /\ pc = "loop"
    /\ IF size > 1
       THEN /\ second' = tree[0]
            /\ pc' = "reduce"
       ELSE /\ second' = second
            /\ pc' = "ladder"
    /\ lad' = IF pc' = "ladder"
              THEN [s0 |-> sc[first], p0 |-> pt[first], r0 |-> r, doublings |-> 0, additions |-> 0]
              ELSE lad
    /\ last' = "none"
    /\ UNCHANGED <<n, sc, pt, r, tree, size, first, sc0, pt0, ret, discarded, via>>

\* lines 152-153: the test of the outer while, then second = heap.tree[0]
LoopHead ==
    /\ pc = "loop"
    /\ IF size > 0
       THEN /\ second' = tree[0]
            /\ pc' = "reduce"
       ELSE /\ second' = second
            /\ pc' = "ladder"
    /\ lad' = IF pc' = "ladder"
              THEN [s0 |-> sc[first], p0 |-> pt[first], r0 |-> r, doublings |-> 0, additions |-> 0]
              ELSE lad
    /\ last' = "none"
    /\ UNCHANGED <<n, sc, pt, r, tree, size, first, sc0, pt0, ret, discarded, via>>

\* Faulty variant: the sum of the two points is stored in pt[first]
ReduceStep_AddIntoFirst ==
    /\ pc = "reduce"
    /\ pt' = [pt EXCEPT ![first] = secp256k1_gej_add_var(pt[first], pt[second])]
    /\ sc' = [sc EXCEPT ![first] = secp256k1_scalar_numsub(sc[first], sc[second])]
    /\ pc' = IF secp256k1_scalar_cmp_var(sc'[first], sc'[second]) >= 0
             THEN "reduce"
             ELSE "reinsert"
    /\ last' = "none"
    /\ UNCHANGED <<n, r, tree, size, first, second, sc0, pt0, ret, discarded, via, lad>>

\* Faulty variant: the difference is stored in sc[second]
ReduceStep_SubIntoSecond ==
    /\ pc = "reduce"
    /\ pt' = [pt EXCEPT ![second] = secp256k1_gej_add_var(pt[first], pt[second])]
    /\ sc' = [sc EXCEPT ![second] = secp256k1_scalar_numsub(sc[first], sc[second])]
    /\ pc' = IF secp256k1_scalar_cmp_var(sc'[first], sc'[second]) >= 0
             THEN "reduce"
             ELSE "reinsert"
    /\ last' = "none"
    /\ UNCHANGED <<n, r, tree, size, first, second, sc0, pt0, ret, discarded, via, lad>>

\* lines 155-163: one iteration of the do-while and its test
ReduceStep ==
    /\ pc = "reduce"
    /\ pt' = [pt EXCEPT ![second] = secp256k1_gej_add_var(pt[first], pt[second])]
    /\ sc' = [sc EXCEPT ![first] = secp256k1_scalar_numsub(sc[first], sc[second])]
    /\ pc' = IF secp256k1_scalar_cmp_var(sc'[first], sc'[second]) >= 0
             THEN "reduce"
             ELSE "reinsert"
    /\ last' = "none"
    /\ UNCHANGED <<n, r, tree, size, first, second, sc0, pt0, ret, discarded, via, lad>>

\* lines 165-166: first is spent, pop the next one
PopNext ==
    /\ pc = "reinsert"
    /\ secp256k1_scalar_is_zero(sc[first])
    /\ LET h == secp256k1_heap_remove(tree, size, sc)
       IN  /\ tree' = h.tree
           /\ size' = h.size
           /\ first' = h.result
           /\ ret' = h.result
    /\ discarded' = discarded \cup {<<first, sc[first]>>}
    /\ last' = "remove"
    /\ via' = "remove"
    /\ pc' = "loop"
    /\ UNCHANGED <<n, sc, pt, r, second, sc0, pt0, lad>>

\* Faulty variant: the index replace-root returns is not taken as the new first
ReplaceRoot_DropsResult ==
    /\ pc = "reinsert"
    /\ ~secp256k1_scalar_is_zero(sc[first])
    /\ LET h == secp256k1_replace(tree, size, sc, first)
       IN  /\ tree' = h.tree
           /\ size' = h.size
           /\ ret' = h.result
    /\ last' = "replace"
    /\ via' = "replace"
    /\ pc' = "loop"
    /\ UNCHANGED <<n, sc, pt, r, first, second, sc0, pt0, discarded, lad>>

\* Faulty variant: first goes back into the heap even when its scalar is zero
ReplaceRoot_EvenIfZero ==
    /\ pc = "reinsert"
    /\ LET h == secp256k1_replace(tree, size, sc, first)
       IN  /\ tree' = h.tree
           /\ size' = h.size
           /\ first' = h.result
           /\ ret' = h.result
    /\ last' = "replace"
    /\ via' = "replace"
    /\ pc' = "loop"
    /\ UNCHANGED <<n, sc, pt, r, second, sc0, pt0, discarded, lad>>

\* lines 167-169: first goes back into the heap, the old root comes out
ReplaceRoot ==
    /\ pc = "reinsert"
    /\ ~secp256k1_scalar_is_zero(sc[first])
    /\ LET h == secp256k1_replace(tree, size, sc, first)
       IN  /\ tree' = h.tree
           /\ size' = h.size
           /\ first' = h.result
           /\ ret' = h.result
    /\ last' = "replace"
    /\ via' = "replace"
    /\ pc' = "loop"
    /\ UNCHANGED <<n, sc, pt, r, second, sc0, pt0, discarded, lad>>

\* Faulty variant: the point is doubled before the test that ends the ladder
LadderStep_DoublesAfterLast ==
    /\ pc = "ladder"
    /\ LET s == secp256k1_scalar_shr_int(sc[first])
           stop == s.bit = 1 /\ secp256k1_scalar_is_zero(s.val)
       IN  /\ sc' = [sc EXCEPT ![first] = s.val]
           /\ r' = IF s.bit = 1 THEN secp256k1_gej_add_var(r, pt[first]) ELSE r
           /\ pt' = [pt EXCEPT ![first] = secp256k1_gej_double_var(pt[first])]
           /\ pc' = IF stop THEN "done" ELSE "ladder"
           /\ lad' = [lad EXCEPT !.additions = @ + s.bit,
                                 !.doublings = @ + 1]
    /\ last' = "none"
    /\ UNCHANGED <<n, tree, size, first, second, sc0, pt0, ret, discarded, via>>

\* lines 178-186: one round of the finishing ladder
LadderStep ==
    /\ pc = "ladder"
    /\ LET s == secp256k1_scalar_shr_int(sc[first])
           stop == s.bit = 1 /\ secp256k1_scalar_is_zero(s.val)
       IN  /\ sc' = [sc EXCEPT ![first] = s.val]
           /\ r' = IF s.bit = 1 THEN secp256k1_gej_add_var(r, pt[first]) ELSE r
           /\ pt' = IF stop
                    THEN pt
                    ELSE [pt EXCEPT ![first] = secp256k1_gej_double_var(pt[first])]
           /\ pc' = IF stop THEN "done" ELSE "ladder"
           /\ lad' = [lad EXCEPT !.additions = @ + s.bit,
                                 !.doublings = @ + (IF stop THEN 0 ELSE 1)]
    /\ last' = "none"
    /\ UNCHANGED <<n, tree, size, first, second, sc0, pt0, ret, discarded, via>>

Next ==
    \/ Start
    \/ FirstPop
    \/ LoopHead
    \/ ReduceStep
    \/ PopNext
    \/ ReplaceRoot
    \/ LadderStep

Spec == Init /\ [][Next]_vars

\* The driver is straight-line sequential code: it always takes its next step.
\* Whether and when it stops depends on the scalars and on which terms the
\* filter drops, so the inputs of this specification take every scalar from
\* the whole range and every point but pt[0] from one value that is not the
\* identity (a zero scalar drops a term just as an identity point does).
FairInit ==
    /\ Init
    /\ \A i \in 0..(n - 1) : pt[i] = Order - 1 \/ (i = 0 /\ pt[i] = Identity)

FairSpec == FairInit /\ [][Next]_vars /\ WF_vars(Next)

\* ---------------------------------------------------------- heap harness
\* The heap operations on their own, in any order, as a unit test drives
\* them: build over an arbitrary scalar array, then any sequence of
\* remove-root and replace-root with any index outside the heap (whatever its
\* scalar, zero included).  Points only matter to the filter of the build,
\* whose test of the point the driver specification exercises; here no point
\* is the identity.
InHeap == {tree[k] : k \in 0..(size - 1)}

HeapInit ==
    /\ n \in 0..MaxN
    /\ sc \in [0..(n - 1) -> 0..HeapMaxScalar]
    /\ pt = [i \in 0..(n - 1) |-> Order - 1]
    /\ r = Uninit
    /\ tree = [k \in 0..(MaxN - 1) |-> Uninit]
    /\ size = Uninit
    /\ first = Uninit
    /\ second = Uninit
    /\ pc = "h_new"
    /\ sc0 = sc
    /\ pt0 = pt
    /\ last = "none"
    /\ ret = Uninit
    /\ discarded = {}
    /\ via = "none"
    /\ lad = NoLadder

HBuild ==
    /\ pc = "h_new"
    /\ LET h == secp256k1_heap_initialize(tree, sc, pt, n)
       IN  /\ tree' = h.tree
           /\ size' = h.size
    /\ last' = "build"
    /\ pc' = "h_ready"
    /\ UNCHANGED <<n, sc, pt, r, first, second, sc0, pt0, ret, discarded, via, lad>>

HRemove ==
    /\ pc = "h_ready"
    /\ size > 0
    /\ LET h == secp256k1_heap_remove(tree, size, sc)
       IN  /\ tree' = h.tree
           /\ size' = h.size
           /\ ret' = h.result
    /\ last' = "remove"
    /\ UNCHANGED <<n, sc, pt, r, first, second, pc, sc0, pt0, discarded, via, lad>>

HReplace(c) ==
    /\ pc = "h_ready"
    /\ size > 0
    /\ c \notin InHeap
    /\ LET h == secp256k1_replace(tree, size, sc, c)
       IN  /\ tree' = h.tree
           /\ size' = h.size
           /\ ret' = h.result
    /\ last' = "replace"
    /\ UNCHANGED <<n, sc, pt, r, first, second, pc, sc0, pt0, discarded, via, lad>>

HeapNext ==
    \/ HBuild
    \/ HRemove
    \/ \E c \in 0..(n - 1) : HReplace(c)

HeapSpec == HeapInit /\ [][HeapNext]_vars

\* The build on its own over every input the precondition n <= MaxN allows:
\* any scalars, any points, the identity included.
BuildInit ==
    /\ n \in 0..MaxN
    /\ sc \in [0..(n - 1) -> 0..HeapMaxScalar]
    /\ pt \in [0..(n - 1) -> Points]
    /\ r = Uninit
    /\ tree = [k \in 0..(MaxN - 1) |-> Uninit]
    /\ size = Uninit
    /\ first = Uninit
    /\ second = Uninit
    /\ pc = "h_new"
    /\ sc0 = sc
    /\ pt0 = pt
    /\ last = "none"
    /\ ret = Uninit
    /\ discarded = {}
    /\ via = "none"
    /\ lad = NoLadder

BuildNext == HBuild

BuildSpec == BuildInit /\ [][BuildNext]_vars

\* ------------------------------------------------------ reference values
\* s*p by an independent right-to-left double-and-add.
RECURSIVE RefMul(_, _)
RefMul(s, p) ==
    IF s = 0
    THEN 0
    ELSE (RefMul(s \div 2, (p + p) % Order) + (IF s % 2 = 1 THEN p ELSE 0)) % Order

\* sum of s[i]*p[i] over i in [0, cnt)
RECURSIVE RefSum(_, _, _)
RefSum(s, p, cnt) ==
    IF cnt = 0
    THEN 0
    ELSE (RefSum(s, p, cnt - 1) + RefMul(s[cnt - 1], p[cnt - 1])) % Order

\* sum of s[t[k]]*p[t[k]] over the heap positions k in [0, sz)
RECURSIVE RefHeapSum(_, _, _, _)
RefHeapSum(s, p, t, sz) ==
    IF sz = 0
    THEN 0
    ELSE (RefHeapSum(s, p, t, sz - 1) + RefMul(s[t[sz - 1]], p[t[sz - 1]])) % Order

\* the sum the caller asked for
Expected == RefSum(sc0, pt0, n)

\* the terms that are active on entry
Active0 == {i \in 0..(n - 1) : sc0[i] # 0 /\ pt0[i] # Identity}

Reducing == pc \in {"loop", "reduce", "reinsert"}

HeapOrdered(t, sz, s) ==
    \A k \in 1..(sz - 1) : s[t[(k - 1) \div 2]] >= s[t[k]]

\* ------------------------------------------------------------------ claims

\* C1: when the driver has returned, r is the group sum of sc0[i]*pt0[i] over
\* all i in [0, n), the arrays being taken as they were on entry and the sum
\* computed by the independent per-term reference.
C1_ResultIsSum == pc = "done" => r = Expected

C1_Witness ==
    /\ pc = "done"
    /\ n = MaxTerms
    /\ Cardinality(Active0) = MaxTerms
    /\ discarded # {}
    /\ r # Identity

\* C2: when no term is active on entry (n = 0, zero scalars, identity points,
\* in any mix) the driver is only ever at its entry or at its return, and at
\* its return r is the identity, nothing was popped, and no scalar or point
\* was touched: no remove-root, no reduction step, no ladder step.
C2_NothingActive ==
    Active0 = {} =>
        /\ pc \in {"start", "done"}
        /\ pc = "done" =>
              /\ r = Identity
              /\ size = 0
              /\ last = "build"
              /\ first = Uninit
              /\ sc = sc0
              /\ pt = pt0

C2_Witness ==
    /\ pc = "done"
    /\ n = MaxTerms
    /\ Active0 = {}
    /\ \E i \in 0..(n - 1) : sc0[i] = 0 /\ pt0[i] # Identity
    /\ \E j \in 0..(n - 1) : sc0[j] # 0 /\ pt0[j] = Identity

\* C3: every run of the driver reaches its end, whatever the input, equal
\* non-zero scalars included.
C3_Terminates == <>(pc = "done")

C3_Witness ==
    /\ pc = "done"
    /\ Cardinality(Active0) = MaxTerms
    /\ \E i, j \in Active0 : i # j /\ sc0[i] = sc0[j]

\* C4: after build and after every remove-root and replace-root, in any order,
\* every non-root position of the heap holds an index whose scalar does not
\* exceed that of its parent; hence tree[0] indexes a maximum of the heap.
C4_HeapOrdered ==
    pc = "h_ready" =>
        /\ HeapOrdered(tree, size, sc)
        /\ \A i \in InHeap : sc[tree[0]] >= sc[i]

C4_Witness ==
    /\ pc = "h_ready"
    /\ last = "replace"
    /\ size = MaxN - 1
    /\ sc[tree[0]] > sc[tree[1]]
    /\ sc[tree[2]] > sc[tree[1]]

\* C5: on a non-empty heap, remove-root returns the index that was at the root
\* and takes exactly one off size; replace-root returns the index that was at
\* the root and leaves size as it was.
C5_RootReturned ==
    [][/\ last' = "remove" => (size > 0 /\ ret' = tree[0] /\ size' = size - 1)
       /\ last' = "replace" => (size > 0 /\ ret' = tree[0] /\ size' = size)]_vars

C5_Witness ==
    /\ pc = "h_ready"
    /\ last = "remove"
    /\ size = MaxN - 1
    /\ ret \notin InHeap
    /\ sc[ret] >= sc[tree[0]]

\* C6: on every valid non-empty heap and for every index outside it, putting
\* the index in at the root by sift_floyd gives the same tree array as putting
\* it in by sift_down from the root, ties on the path included.
C6_FloydIsSiftDown ==
    (pc = "h_ready" /\ size > 0) =>
        \A c \in (0..(n - 1)) \ InHeap :
            secp256k1_sift_floyd(tree, size, sc, 0, c)
                = secp256k1_sift_down(tree, size, sc, 0, c)

C6_Witness ==
    /\ pc = "h_ready"
    /\ size = MaxN - 1
    /\ \E c \in (0..(n - 1)) \ InHeap :
          /\ sc[c] = sc[tree[LargerChild(tree, size, sc, 0)]]
          /\ sc[c] < sc[tree[0]]
          /\ secp256k1_sift_floyd(tree, size, sc, 0, c)[0] # c

\* C7: whenever an iteration of the do-while is about to run, the scalar of
\* first is at least the scalar of second, so the non-modular subtraction
\* does not borrow; the first iteration after a remove-root or a
\* replace-root is no exception.
C7_NoBorrow ==
    pc = "reduce" =>
        /\ sc[first] >= sc[second]
        /\ secp256k1_scalar_numsub(sc[first], sc[second]) = sc[first] - sc[second]

C7_Witness ==
    /\ pc = "reduce"
    /\ via = "replace"
    /\ sc[first] = sc0[first]
    /\ size = MaxTerms - 1
    /\ sc[first] > sc[second]

\* C8: at every head of the outer loop and after every iteration of the
\* do-while, the term in hand plus the terms of the heap add up to the sum the
\* caller asked for.
C8_SumPreserved ==
    Reducing =>
        (RefMul(sc[first], pt[first]) + RefHeapSum(sc, pt, tree, size)) % Order = Expected

C8_Witness ==
    /\ pc = "reinsert"
    /\ via = "replace"
    /\ Cardinality(Active0) = MaxTerms
    /\ pt[second] # pt0[second]
    /\ Expected # Identity

\* C9: when the outer loop is left, the heap is empty, the scalar of first is
\* not zero (the VERIFY_CHECK of line 172 passes) and scalar(first)*point(first)
\* is the whole result.
C9_LoopExit ==
    [][(pc = "loop" /\ pc' = "ladder") =>
          /\ size = 0
          /\ ~secp256k1_scalar_is_zero(sc[first])
          /\ RefMul(sc[first], pt[first]) = Expected]_vars

C9_Witness ==
    /\ pc = "ladder"
    /\ r = Identity
    /\ size = 0
    /\ Cardinality(Active0) = MaxTerms
    /\ Cardinality(discarded) = MaxTerms - 1
    /\ sc[first] > 1
    /\ RefMul(sc[first], pt[first]) # Identity

\* C10: throughout the reduction first is one index of the input that is not
\* in tree[0..size), the indices in tree[0..size) are pairwise distinct, and
\* every term active on entry is first, or in the heap, or was dropped at a
\* moment when its scalar was zero.
C10_OneInHand ==
    Reducing =>
        /\ first \in 0..(n - 1)
        /\ first \notin InHeap
        /\ \A j, k \in 0..(size - 1) : j # k => tree[j] # tree[k]
        /\ \A d \in discarded : d[2] = 0
        /\ \A i \in Active0 : i = first \/ i \in InHeap \/ <<i, 0>> \in discarded

C10_Witness ==
    /\ Reducing
    /\ via = "replace"
    /\ size > 0
    /\ discarded # {}
    /\ Cardinality(Active0) = MaxTerms

\* C11 as the specification words it: from the build on, every index in
\* tree[0..size) has a non-zero scalar and a point that is not the identity.
C11_HeapTermsActive ==
    pc \in {"first_pop", "loop", "reduce", "reinsert"} =>
        \A i \in InHeap : sc[i] # 0 /\ pt[i] # Identity

\* C11: from the build on, every index in tree[0..size) was active on entry
\* (scalar not zero, point not the identity, both as passed in) and its
\* scalar is still not zero; its point is whatever the additions of line 160
\* have made of it, the identity included.
C11_HeapTermsEnteredActive ==
    pc \in {"first_pop", "loop", "reduce", "reinsert"} =>
        \A i \in InHeap : i \in Active0 /\ sc[i] # 0

C11_Witness ==
    /\ pc = "reinsert"
    /\ size = MaxTerms - 1
    /\ second \in InHeap
    /\ pt[second] = Identity
    /\ pt0[second] # Identity
    /\ sc[second] # 0

\* the positions strictly above k on the way up to node
RECURSIVE Above(_, _)
Above(k, node) ==
    IF k <= node
    THEN {}
    ELSE {(k - 1) \div 2} \cup Above((k - 1) \div 2, node)

\* where sift_down(node, c) has put c (c is not in the heap beforehand)
PlacedAt(node, c) ==
    CHOOSE k \in node..(size - 1) : secp256k1_sift_down(tree, size, sc, node, c)[k] = c

\* C12 as the specification words it: sift_down(node, c) on a valid heap
\* passes a level only when c's scalar is smaller than that of the larger
\* child there, and where it puts c, c's scalar is not smaller than (>=) that
\* of the larger child, if there is a child; so a c equal to the larger child
\* of node stays at node and the child is not moved.
C12_StopsWhenNotSmaller ==
    pc = "h_ready" =>
        \A node \in 0..(size - 1) : \A c \in (0..(n - 1)) \ InHeap :
            LET t2 == secp256k1_sift_down(tree, size, sc, node, c)
                pos == PlacedAt(node, c)
            IN  /\ \A a \in Above(pos, node) :
                      sc[c] < sc[tree[LargerChild(tree, size, sc, a)]]
                /\ pos < size \div 2 =>
                      sc[c] >= sc[tree[LargerChild(tree, size, sc, pos)]]
                /\ (node < size \div 2
                      /\ sc[c] = sc[tree[LargerChild(tree, size, sc, node)]]) =>
                      t2 = [tree EXCEPT ![node] = c]

\* C12: sift_down(node, c) on a valid heap passes a level exactly when c's
\* scalar is not larger than (<=) that of the larger child there, moving that
\* child up, and where it puts c, c's scalar is strictly larger than that of
\* the larger child, if there is a child; so a c equal to the larger child of
\* node goes below it and the child is moved up into node.
C12_StopsWhenLarger ==
    pc = "h_ready" =>
        \A node \in 0..(size - 1) : \A c \in (0..(n - 1)) \ InHeap :
            LET t2 == secp256k1_sift_down(tree, size, sc, node, c)
                pos == PlacedAt(node, c)
            IN  /\ t2[pos] = c
                /\ \A a \in Above(pos, node) :
                      /\ sc[c] <= sc[tree[LargerChild(tree, size, sc, a)]]
                      /\ t2[a] = tree[LargerChild(tree, size, sc, a)]
                /\ pos < size \div 2 =>
                      sc[c] > sc[tree[LargerChild(tree, size, sc, pos)]]
                /\ (node < size \div 2
                      /\ sc[c] = sc[tree[LargerChild(tree, size, sc, node)]]) =>
                      /\ t2[node] = tree[LargerChild(tree, size, sc, node)]
                      /\ pos # node

C12_Witness ==
    /\ pc = "h_ready"
    /\ size = MaxN - 1
    /\ \E c \in (0..(n - 1)) \ InHeap :
          /\ sc[c] = sc[tree[LargerChild(tree, size, sc, 0)]]
          /\ sc[c] > 0
          /\ secp256k1_sift_down(tree, size, sc, 0, c)[0] = tree[LargerChild(tree, size, sc, 0)]
          /\ PlacedAt(0, c) = LargerChild(tree, size, sc, 0)

\* number of bits of s up to its highest set bit
RECURSIVE BitLength(_)
BitLength(s) == IF s = 0 THEN 0 ELSE 1 + BitLength(s \div 2)

\* number of set bits of s
RECURSIVE PopCount(_)
PopCount(s) == IF s = 0 THEN 0 ELSE (s % 2) + PopCount(s \div 2)

\* C13: the ladder starts with a non-zero scalar s0 at first, point p0 and
\* accumulator r0; a round is the last one exactly when its shift takes a 1
\* bit out and leaves the scalar zero; that round adds but does not double,
\* and after it r = r0 + s0*p0, the doublings number BitLength(s0) - 1 and
\* the additions PopCount(s0).
C13_Ladder ==
    [][pc = "ladder" =>
          /\ lad.s0 # 0
          /\ (pc' = "done") <=> (sc[first] % 2 = 1 /\ sc[first] \div 2 = 0)
          /\ pc' = "done" =>
                /\ sc'[first] = 0
                /\ pt'[first] = pt[first]
                /\ r' = (lad.r0 + RefMul(lad.s0, lad.p0)) % Order
                /\ lad'.doublings = BitLength(lad.s0) - 1
                /\ lad'.additions = PopCount(lad.s0)
                /\ lad'.additions = lad.additions + 1]_vars

C13_Witness ==
    /\ pc = "done"
    /\ lad.s0 = MaxScalar
    /\ lad.p0 # Identity
    /\ lad.doublings = BitLength(MaxScalar) - 1
    /\ lad.additions = PopCount(MaxScalar)
    /\ r # Identity

\* C14: for every n <= MaxN, n = MaxN with every term active included, after
\* the build tree[0..size) holds exactly the indices i of [0, n) whose scalar
\* is not zero and whose point is not the identity, each once and as the
\* number i itself, and size is their count; an index whose point is the
\* identity is left out even when its scalar is not zero.
C14_BuildHoldsActive ==
    pc = "h_ready" =>
        /\ size = Cardinality(Active0)
        /\ size <= MaxN
        /\ InHeap = Active0
        /\ \A j, k \in 0..(size - 1) : j # k => tree[j] # tree[k]
        /\ \A i \in 0..(n - 1) : (sc[i] # 0 /\ pt[i] = Identity) => i \notin InHeap

C14_Witness ==
    /\ pc = "h_ready"
    /\ n = MaxN
    /\ size = MaxN
    /\ InHeap = 0..(MaxN - 1)
    /\ tree[0] = MaxN - 1

\* The control state of the driver: INIT up to and including the first pop,
\* REDUCING inside the outer loop, FINISHING from the failing test of the
\* outer loop to the end of the ladder, DONE at the return.
Phase ==
    CASE pc \in {"start", "first_pop"} -> "INIT"
      [] pc = "loop" -> IF size > 0 THEN "REDUCING" ELSE "FINISHING"
      [] pc \in {"reduce", "reinsert"} -> "REDUCING"
      [] pc = "ladder" -> "FINISHING"
      [] OTHER -> "DONE"

\* C15 as the specification words it: the control state changes only by
\* INIT -> FINISHING (heap empty after the filter or after the first pop),
\* INIT -> REDUCING (heap not empty after the first pop), REDUCING ->
\* FINISHING (heap empty) and FINISHING -> DONE (last set bit consumed).
C15_PhaseStepsAsWorded ==
    [][\/ Phase' = Phase
       \/ Phase = "INIT" /\ Phase' = "FINISHING" /\ size' = 0
       \/ Phase = "INIT" /\ Phase' = "REDUCING" /\ size' > 0
       \/ Phase = "REDUCING" /\ Phase' = "FINISHING" /\ size' = 0
       \/ Phase = "FINISHING" /\ Phase' = "DONE" /\ sc[first] = 1]_vars

\* C15: the control state changes only by INIT -> DONE (no active term: the
\* heap is empty after the filter and the driver returns without a ladder),
\* INIT -> FINISHING (exactly one active term: the first pop empties the
\* heap), INIT -> REDUCING (heap not empty after the first pop), REDUCING ->
\* FINISHING (exactly when the heap is empty) and FINISHING -> DONE (last set
\* bit consumed); INIT is left at the build only when no term is active.
C15_PhaseSteps ==
    [][/\ \/ Phase' = Phase
          \/ /\ Phase = "INIT" /\ Phase' = "DONE"
             /\ pc = "start" /\ size' = 0 /\ Active0 = {}
          \/ /\ Phase = "INIT" /\ Phase' = "FINISHING"
             /\ pc = "first_pop" /\ size' = 0 /\ Cardinality(Active0) = 1
          \/ /\ Phase = "INIT" /\ Phase' = "REDUCING"
             /\ pc = "first_pop" /\ size' > 0 /\ Cardinality(Active0) > 1
          \/ Phase = "REDUCING" /\ Phase' = "FINISHING" /\ size' = 0
          \/ Phase = "FINISHING" /\ Phase' = "DONE" /\ sc[first] = 1 /\ sc'[first] = 0
       /\ (Phase = "INIT" /\ Phase' = "INIT") => (pc = "start" /\ size' > 0)
       /\ (Phase = "REDUCING" /\ Phase' = "REDUCING") => size' > 0
       /\ (Phase = "FINISHING" /\ Phase' = "FINISHING" /\ pc = "ladder") => sc[first] > 1]_vars

C15_Witness ==
    /\ pc = "done"
    /\ last = "build"
    /\ lad = NoLadder
    /\ n = MaxTerms
    /\ \A i \in 0..(n - 1) : sc0[i] # 0 /\ pt0[i] = Identity

\* C16 as the specification words it: replace-root is called with first only
\* when sc[first] is not zero, it returns second, and the index it returns is
\* dropped: it is not first afterwards.
C16_ReturnedIndexDropped ==
    [][last' = "replace" =>
          /\ ~secp256k1_scalar_is_zero(sc[first])
          /\ ret' = second
          /\ first' # ret']_vars

\* C16: replace-root is called with first only when sc[first] is not zero,
\* it returns second (the root peeked at the head of the iteration), and the
\* index it returns is the first of the next iteration; the old first is in
\* the heap, the new one is not, and nothing is dropped.
C16_ReturnedIndexInHand ==
    [][last' = "replace" =>
          /\ pc = "reinsert"
          /\ ~secp256k1_scalar_is_zero(sc[first])
          /\ ret' = second
          /\ first' = ret'
          /\ first \in InHeap'
          /\ first' \notin InHeap'
          /\ discarded' = discarded]_vars

C16_Witness ==
    /\ pc = "loop"
    /\ last = "replace"
    /\ first = ret
    /\ ret = second
    /\ size = MaxTerms - 1
    /\ sc[first] > sc[tree[0]]

\* C17: a step of the driver changes no scalar but sc[first], and only while
\* first is outside the heap; up to the end of the reduction it changes no
\* point but pt[second], and only in the do-while; a step that performs a
\* heap operation (build, remove-root, replace-root) changes no scalar and no
\* point.  So the scalar of every index in tree[0..size) is the same after a
\* step as before it.
C17_Frame ==
    [][/\ \A i \in 0..(n - 1) :
             sc'[i] # sc[i] => (i = first /\ first \notin InHeap /\ pc \in {"reduce", "ladder"})
       /\ \A i \in 0..(n - 1) :
             (pt'[i] # pt[i] /\ pc # "ladder") => (i = second /\ pc = "reduce")
       /\ last' \in {"build", "remove", "replace"} => (sc' = sc /\ pt' = pt)
       /\ \A i \in InHeap : sc'[i] = sc[i]]_vars

C17_Witness ==
    /\ pc = "reinsert"
    /\ size = MaxTerms - 1
    /\ sc[first] # sc0[first]
    /\ pt[first] = pt0[first]
    /\ pt[second] # pt0[second]
    /\ \A i \in InHeap : sc[i] = sc0[i]
    /\ \A i \in InHeap \ {second} : pt[i] = pt0[i]

\* C18: in every state of a driver run every index in tree[0..size) has a
\* scalar that is not zero; so whenever an iteration of the do-while is about
\* to run sc[second] > 0, and what the subtraction leaves in sc[first] is
\* strictly less than what was there.
C18_HeapScalarsNonZero ==
    /\ \A i \in InHeap : ~secp256k1_scalar_is_zero(sc[i])
    /\ pc = "reduce" =>
          /\ second \in InHeap
          /\ sc[second] > 0
          /\ secp256k1_scalar_numsub(sc[first], sc[second]) < sc[first]

C18_Witness ==
    /\ pc = "reduce"
    /\ via = "replace"
    /\ size = MaxTerms - 1
    /\ sc[first] # sc0[first]
    /\ sc[tree[size - 1]] # sc0[tree[size - 1]]
    /\ sc[first] >= 2 * sc[second]

\* C19: the heap operations neither lose nor duplicate an index.  The build's
\* heapify leaves in tree[0..size) the set of indices the filtering scan put
\* there; after remove-root the set is the old one without the returned
\* root; after replace-root(c), c not in the heap, it is the old one without
\* the returned root and with c; the positions always hold distinct indices.
C19_IndexSetKept ==
    [][/\ last' = "build" =>
             LET f == FilterFrom(tree, 0, sc, pt, n, 0)
             IN  /\ size' = f.size
                 /\ InHeap' = {f.tree[k] : k \in 0..(f.size - 1)}
       /\ last' = "remove" =>
             /\ ret' \in InHeap
             /\ InHeap' = InHeap \ {ret'}
       /\ last' = "replace" =>
             /\ ret' \in InHeap
             /\ \E c \in (0..(n - 1)) \ InHeap :
                   /\ InHeap' = (InHeap \ {ret'}) \cup {c}
                   /\ HReplace(c)
       /\ Cardinality(InHeap') = size']_vars

C19_Witness ==
    /\ pc = "h_ready"
    /\ last = "replace"
    /\ size = MaxN - 1
    /\ ret \notin InHeap
    /\ tree[size - 1] < tree[0]
    /\ sc[tree[size - 1]] = sc[tree[0]]

====
